---- MODULE Spec2Model ----
(***************************************************************************)
(* The account-path validator of the ledger (package vos, account.go):     *)
(* NewAccount / NewAnalyticAccount scan an account string rune by rune     *)
(* with one state record, then validate the final label, fold the case and *)
(* return the typed Account.                                               *)
(*                                                                         *)
(* A Go string is modelled as the sequence of its bytes (0..255); the      *)
(* range loop decodes runes from it.  Error values of package app are      *)
(* modelled by their identifiers.                                          *)
(*                                                                         *)
(* The ledger use case (CreateTransaction, ListAccountEntries) and the     *)
(* store behind the Repository interface are modelled from the design      *)
(* document and the use-case tests: their code is not part of the sources  *)
(* at hand.  They run under LedgerSpec; the validator runs under Spec.     *)
(***************************************************************************)
EXTENDS Integers, Sequences, FiniteSets, TLC

VARIABLES input, account, analyticOnly, pc, idx, r, st, err, ret, round, first

\* The ledger behind the Repository contract and the last use-case call.
VARIABLES op, entries, accVersion, txDebit, txCredit, txErr, repoList, ucList

validatorVars == <<input, account, analyticOnly, pc, idx, r, st, err, ret, round, first>>

ledgerVars == <<op, entries, accVersion, txDebit, txCredit, txErr, repoList, ucList>>

vars == <<validatorVars, ledgerVars>>

(***************************************************************************)
(* Account types (iota + 1).                                               *)
(***************************************************************************)
Analytic == 1
Synthetic == 2

(***************************************************************************)
(* Available classes, as byte sequences.                                   *)
(***************************************************************************)
asset == <<97, 115, 115, 101, 116>>
conciliateCredit ==
    <<99, 111, 110, 99, 105, 108, 105, 97, 116, 101, 95, 99, 114, 101, 100, 105, 116>>
conciliateDebit ==
    <<99, 111, 110, 99, 105, 108, 105, 97, 116, 101, 95, 100, 101, 98, 105, 116>>
equity == <<101, 113, 117, 105, 116, 121>>
expense == <<101, 120, 112, 101, 110, 115, 101>>
liability == <<108, 105, 97, 98, 105, 108, 105, 116, 121>>
revenue == <<114, 101, 118, 101, 110, 117, 101>>

\* The case list of the two class switches.
Classes ==
    {asset, conciliateCredit, conciliateDebit, equity, expense, revenue, liability}

(***************************************************************************)
(* Symbols.                                                                *)
(***************************************************************************)
lowerLetterStart == 97
lowerLetterEnd == 122
digitStart == 48
digitEnd == 57
upperLetterStart == 65
upperLetterEnd == 90
underscore == 95
dot == 46
star == 42

(***************************************************************************)
(* Limits.  The source has maxLabelSize = 256 and maxComponents = 65535;   *)
(* both are scaled down here.  maxLabelSize is kept at least one above the *)
(* longest class name (17 bytes), so that every class still fits a label.  *)
(***************************************************************************)
maxLabelSize == 18
maxComponents == 3

(***************************************************************************)
(* Errors of package app, by identifier.                                   *)
(***************************************************************************)
nil == "nil"
ErrInvalidAccountStructure == "ErrInvalidAccountStructure"
ErrInvalidSingleAccountComponentCharacters == "ErrInvalidSingleAccountComponentCharacters"
ErrInvalidAccountComponentCharacters == "ErrInvalidAccountComponentCharacters"
ErrInvalidAccountComponentSize == "ErrInvalidAccountComponentSize"
ErrAccountPathViolation == "ErrAccountPathViolation"

\* Account{}: the zero value returned next to an error.
ZeroAccount == [accountType |-> 0, value |-> <<>>]

\* &state{strategy: Analytic}
InitState ==
    [totalComponents |-> 0, componentSize |-> 0, strategy |-> Analytic,
     needsLower |-> FALSE, componentHasStar |-> FALSE]

(***************************************************************************)
(* The rune the range loop yields at byte offset i (0-based) and its width *)
(* in bytes.  Bytes below 0x80 are themselves; a lead byte 0xC2..0xDF      *)
(* followed by a continuation byte 0x80..0xBF is a two-byte rune; any      *)
(* other byte below 0xE0 is an invalid encoding: utf8.RuneError, width 1.  *)
(* (Inputs of the model hold no byte of 0xE0 or above.)                    *)
(***************************************************************************)
RuneError == 65533

DecodeRune(s, i) ==
    LET b1 == s[i + 1] IN
    IF b1 < 128 THEN [rune |-> b1, width |-> 1]
    ELSE IF b1 >= 194 /\ b1 <= 223 /\ i + 2 <= Len(s)
            /\ s[i + 2] >= 128 /\ s[i + 2] <= 191
         THEN [rune |-> (b1 - 192) * 64 + (s[i + 2] - 128), width |-> 2]
         ELSE [rune |-> RuneError, width |-> 1]

(***************************************************************************)
(* Variants of treatDot with one check missing: the class check of the     *)
(* first label; the emptiness check of the closed label.                   *)
(***************************************************************************)
treatDot_NoClassCheck(acc, s) ==
    IF s.componentSize = 0 \/ s.componentSize > maxLabelSize
    THEN [err |-> ErrInvalidAccountComponentSize, st |-> s]
    ELSE IF s.totalComponents >= maxComponents
         THEN [err |-> ErrInvalidAccountStructure, st |-> s]
         ELSE [err |-> nil,
               st |-> [s EXCEPT !.totalComponents = @ + 1,
                                !.componentSize = 0,
                                !.componentHasStar = FALSE]]

treatDot_NoEmptyCheck(acc, s) ==
    IF s.componentSize > maxLabelSize
    THEN [err |-> ErrInvalidAccountComponentSize, st |-> s]
    ELSE IF s.totalComponents = 0 /\ ~s.componentHasStar
              /\ SubSeq(acc, 1, s.componentSize) \notin Classes
         THEN [err |-> ErrAccountPathViolation, st |-> s]
         ELSE IF ~(s.totalComponents = 0 /\ ~s.componentHasStar)
                   /\ s.totalComponents >= maxComponents
              THEN [err |-> ErrInvalidAccountStructure, st |-> s]
              ELSE [err |-> nil,
                    st |-> [s EXCEPT !.totalComponents = @ + 1,
                                     !.componentSize = 0,
                                     !.componentHasStar = FALSE]]

\* Variant of treatDot that leaves componentHasStar as it is.
treatDot_NoStarReset(acc, s) ==
    IF s.componentSize = 0 \/ s.componentSize > maxLabelSize
    THEN [err |-> ErrInvalidAccountComponentSize, st |-> s]
    ELSE IF s.totalComponents = 0 /\ ~s.componentHasStar
              /\ SubSeq(acc, 1, s.componentSize) \notin Classes
         THEN [err |-> ErrAccountPathViolation, st |-> s]
         ELSE IF ~(s.totalComponents = 0 /\ ~s.componentHasStar)
                   /\ s.totalComponents >= maxComponents
              THEN [err |-> ErrInvalidAccountStructure, st |-> s]
              ELSE [err |-> nil,
                    st |-> [s EXCEPT !.totalComponents = @ + 1,
                                     !.componentSize = 0]]

(***************************************************************************)
(* treatDot: a label boundary.                                             *)
(***************************************************************************)
treatDot(acc, s) ==
    IF s.componentSize = 0 \/ s.componentSize > maxLabelSize
    THEN [err |-> ErrInvalidAccountComponentSize, st |-> s]
    ELSE IF s.totalComponents = 0 /\ ~s.componentHasStar
              /\ SubSeq(acc, 1, s.componentSize) \notin Classes
         THEN [err |-> ErrAccountPathViolation, st |-> s]
         ELSE IF ~(s.totalComponents = 0 /\ ~s.componentHasStar)
                   /\ s.totalComponents >= maxComponents
              THEN [err |-> ErrInvalidAccountStructure, st |-> s]
              ELSE [err |-> nil,
                    st |-> [s EXCEPT !.totalComponents = @ + 1,
                                     !.componentSize = 0,
                                     !.componentHasStar = FALSE]]

(***************************************************************************)
(* Variants of treatStar: without the one-wildcard-per-label check;        *)
(* without the switch of the strategy to Synthetic.                        *)
(***************************************************************************)
treatStar_NoDupCheck(s) ==
    [err |-> nil,
     st |-> [s EXCEPT !.strategy = Synthetic,
                      !.componentSize = @ + 1,
                      !.componentHasStar = TRUE]]

treatStar_NoStrategy(s) ==
    IF s.componentHasStar
    THEN [err |-> ErrInvalidAccountStructure, st |-> s]
    ELSE [err |-> nil,
          st |-> [s EXCEPT !.componentSize = @ + 1,
                           !.componentHasStar = TRUE]]

(***************************************************************************)
(* treatStar: a wildcard in the current label.                             *)
(***************************************************************************)
treatStar(s) ==
    IF s.componentHasStar
    THEN [err |-> ErrInvalidAccountStructure, st |-> s]
    ELSE [err |-> nil,
          st |-> [s EXCEPT !.strategy = Synthetic,
                           !.componentSize = @ + 1,
                           !.componentHasStar = TRUE]]

(***************************************************************************)
(* Variant of lowerAccount with the delta the wrong way round:             *)
(* uint8('A') - uint8('a'), which wraps to 224.                            *)
(***************************************************************************)
lowerAccount_WrongDelta(acc) ==
    [i \in 1..Len(acc) |->
        IF 65 <= acc[i] /\ acc[i] <= 90 THEN (acc[i] + (256 + 65 - 97)) % 256 ELSE acc[i]]

(***************************************************************************)
(* lowerAccount: byte-wise, c += 'a' - 'A' (uint8) for 'A' <= c <= 'Z'.    *)
(***************************************************************************)
lowerAccount(acc) ==
    [i \in 1..Len(acc) |->
        IF 65 <= acc[i] /\ acc[i] <= 90 THEN (acc[i] + (97 - 65)) % 256 ELSE acc[i]]

(***************************************************************************)
(* The rune classes of the switch, in the order of its cases.              *)
(***************************************************************************)
IsLower(c) == c >= lowerLetterStart /\ c <= lowerLetterEnd
IsDigit(c) == c >= digitStart /\ c <= digitEnd
IsUpper(c) == c >= upperLetterStart /\ c <= upperLetterEnd
IsUnderscore(c) == c = underscore
IsDot(c) == c = dot
IsStar(c) == c = star
IsOther(c) ==
    ~(IsLower(c) \/ IsDigit(c) \/ IsUpper(c) \/ IsUnderscore(c) \/ IsDot(c) \/ IsStar(c))

(***************************************************************************)
(* Variant of scanRune whose star case ignores analyticOnly.               *)
(***************************************************************************)
scanRune_StarInAnalytic(acc, aOnly, s, c) ==
    IF IsLower(c) THEN [err |-> nil, st |-> [s EXCEPT !.componentSize = @ + 1]]
    ELSE IF IsDigit(c) THEN [err |-> nil, st |-> [s EXCEPT !.componentSize = @ + 1]]
    ELSE IF IsUpper(c)
         THEN [err |-> nil,
               st |-> [s EXCEPT !.componentSize = @ + 1, !.needsLower = TRUE]]
    ELSE IF IsUnderscore(c) THEN [err |-> nil, st |-> [s EXCEPT !.componentSize = @ + 1]]
    ELSE IF IsDot(c) THEN treatDot(acc, s)
    ELSE IF IsStar(c) THEN treatStar(s)
    ELSE [err |-> ErrInvalidAccountComponentCharacters, st |-> s]

\* Variant of scanRune that reports a star in analytic-only mode as any other
\* invalid character.
scanRune_AnalyticStarAsOther(acc, aOnly, s, c) ==
    IF IsLower(c) THEN [err |-> nil, st |-> [s EXCEPT !.componentSize = @ + 1]]
    ELSE IF IsDigit(c) THEN [err |-> nil, st |-> [s EXCEPT !.componentSize = @ + 1]]
    ELSE IF IsUpper(c)
         THEN [err |-> nil,
               st |-> [s EXCEPT !.componentSize = @ + 1, !.needsLower = TRUE]]
    ELSE IF IsUnderscore(c) THEN [err |-> nil, st |-> [s EXCEPT !.componentSize = @ + 1]]
    ELSE IF IsDot(c) THEN treatDot(acc, s)
    ELSE IF IsStar(c) /\ ~aOnly THEN treatStar(s)
    ELSE [err |-> ErrInvalidAccountComponentCharacters, st |-> s]

\* Variant of scanRune that rejects uppercase letters in analytic-only mode.
scanRune_AnalyticNoUpper(acc, aOnly, s, c) ==
    IF IsLower(c) THEN [err |-> nil, st |-> [s EXCEPT !.componentSize = @ + 1]]
    ELSE IF IsDigit(c) THEN [err |-> nil, st |-> [s EXCEPT !.componentSize = @ + 1]]
    ELSE IF IsUpper(c) /\ ~aOnly
         THEN [err |-> nil,
               st |-> [s EXCEPT !.componentSize = @ + 1, !.needsLower = TRUE]]
    ELSE IF IsUnderscore(c) THEN [err |-> nil, st |-> [s EXCEPT !.componentSize = @ + 1]]
    ELSE IF IsDot(c) THEN treatDot(acc, s)
    ELSE IF IsStar(c)
         THEN IF aOnly
              THEN [err |-> ErrInvalidSingleAccountComponentCharacters, st |-> s]
              ELSE treatStar(s)
    ELSE [err |-> ErrInvalidAccountComponentCharacters, st |-> s]

\* Variant of scanRune whose default case counts the rune as a character of
\* the label.
scanRune_OtherCounts(acc, aOnly, s, c) ==
    IF IsLower(c) THEN [err |-> nil, st |-> [s EXCEPT !.componentSize = @ + 1]]
    ELSE IF IsDigit(c) THEN [err |-> nil, st |-> [s EXCEPT !.componentSize = @ + 1]]
    ELSE IF IsUpper(c)
         THEN [err |-> nil,
               st |-> [s EXCEPT !.componentSize = @ + 1, !.needsLower = TRUE]]
    ELSE IF IsUnderscore(c) THEN [err |-> nil, st |-> [s EXCEPT !.componentSize = @ + 1]]
    ELSE IF IsDot(c) THEN treatDot(acc, s)
    ELSE IF IsStar(c)
         THEN IF aOnly
              THEN [err |-> ErrInvalidSingleAccountComponentCharacters, st |-> s]
              ELSE treatStar(s)
    ELSE [err |-> nil, st |-> [s EXCEPT !.componentSize = @ + 1]]

\* Variant of scanRune whose uppercase case does not set needsLower.
scanRune_UpperNoFlag(acc, aOnly, s, c) ==
    IF IsLower(c) THEN [err |-> nil, st |-> [s EXCEPT !.componentSize = @ + 1]]
    ELSE IF IsDigit(c) THEN [err |-> nil, st |-> [s EXCEPT !.componentSize = @ + 1]]
    ELSE IF IsUpper(c) THEN [err |-> nil, st |-> [s EXCEPT !.componentSize = @ + 1]]
    ELSE IF IsUnderscore(c) THEN [err |-> nil, st |-> [s EXCEPT !.componentSize = @ + 1]]
    ELSE IF IsDot(c) THEN treatDot(acc, s)
    ELSE IF IsStar(c)
         THEN IF aOnly
              THEN [err |-> ErrInvalidSingleAccountComponentCharacters, st |-> s]
              ELSE treatStar(s)
    ELSE [err |-> ErrInvalidAccountComponentCharacters, st |-> s]

(***************************************************************************)
(* One iteration of the loop body: the switch on rune c.                   *)
(***************************************************************************)
scanRune(acc, aOnly, s, c) ==
    IF IsLower(c) THEN [err |-> nil, st |-> [s EXCEPT !.componentSize = @ + 1]]
    ELSE IF IsDigit(c) THEN [err |-> nil, st |-> [s EXCEPT !.componentSize = @ + 1]]
    ELSE IF IsUpper(c)
         THEN [err |-> nil,
               st |-> [s EXCEPT !.componentSize = @ + 1, !.needsLower = TRUE]]
    ELSE IF IsUnderscore(c) THEN [err |-> nil, st |-> [s EXCEPT !.componentSize = @ + 1]]
    ELSE IF IsDot(c) THEN treatDot(acc, s)
    ELSE IF IsStar(c)
         THEN IF aOnly
              THEN [err |-> ErrInvalidSingleAccountComponentCharacters, st |-> s]
              ELSE treatStar(s)
    ELSE [err |-> ErrInvalidAccountComponentCharacters, st |-> s]

(***************************************************************************)
(* Variant of finish that reports the trailing dot with                    *)
(* ErrInvalidAccountStructure.                                             *)
(***************************************************************************)
finish_TrailingDotStructure(acc, s, c) ==
    IF c = dot
    THEN [err |-> ErrInvalidAccountStructure, ret |-> ZeroAccount]
    ELSE IF s.totalComponents = 0 /\ ~s.componentHasStar
              /\ SubSeq(acc, 1, s.componentSize) \notin Classes
         THEN [err |-> ErrAccountPathViolation, ret |-> ZeroAccount]
         ELSE IF ~(s.totalComponents = 0 /\ ~s.componentHasStar)
                   /\ s.totalComponents < 2 /\ s.strategy # Synthetic
              THEN [err |-> ErrInvalidAccountStructure, ret |-> ZeroAccount]
              ELSE [err |-> nil,
                    ret |-> [accountType |-> s.strategy,
                             value |-> IF s.needsLower THEN lowerAccount(acc) ELSE acc]]

(***************************************************************************)
(* The code after the loop: trailing dot, final label, minimum length,     *)
(* case folding, result.  c is the last rune the loop read.                *)
(***************************************************************************)
finish(acc, s, c) ==
    IF c = dot
    THEN [err |-> ErrInvalidAccountComponentSize, ret |-> ZeroAccount]
    ELSE IF s.totalComponents = 0 /\ ~s.componentHasStar
              /\ SubSeq(acc, 1, s.componentSize) \notin Classes
         THEN [err |-> ErrAccountPathViolation, ret |-> ZeroAccount]
         ELSE IF ~(s.totalComponents = 0 /\ ~s.componentHasStar)
                   /\ s.totalComponents < 2 /\ s.strategy # Synthetic
              THEN [err |-> ErrInvalidAccountStructure, ret |-> ZeroAccount]
              ELSE [err |-> nil,
                    ret |-> [accountType |-> s.strategy,
                             value |-> IF s.needsLower THEN lowerAccount(acc) ELSE acc]]

(***************************************************************************)
(* newAccount as a function of its arguments: the fold of scanRune over    *)
(* the runes of acc from byte offset i, then finish.                       *)
(***************************************************************************)
RECURSIVE scanFrom(_, _, _, _, _)
scanFrom(acc, aOnly, i, s, c) ==
    IF i >= Len(acc)
    THEN finish(acc, s, c)
    ELSE LET d == DecodeRune(acc, i)
             o == scanRune(acc, aOnly, s, d.rune)
         IN  IF o.err # nil
             THEN [err |-> o.err, ret |-> ZeroAccount]
             ELSE scanFrom(acc, aOnly, i + d.width, o.st, d.rune)

newAccount(acc, aOnly) ==
    IF Len(acc) = 0
    THEN [err |-> ErrInvalidAccountStructure, ret |-> ZeroAccount]
    ELSE scanFrom(acc, aOnly, 0, InitState, 0)

NewAnalyticAccount(acc) == newAccount(acc, TRUE)
NewAccount(acc) == newAccount(acc, FALSE)

(***************************************************************************)
(* Input strings of the model: labels joined by dots.                      *)
(***************************************************************************)
MaxLabels == maxComponents + 2

Rep(n, c) == [i \in 1..n |-> c]

\* "a1", "B", "*", "a*", "**", "!", U+00E9 in UTF-8, "Asset", and labels of
\* maxLabelSize and maxLabelSize + 1 bytes.
LblPlain == <<97, 49>>
LblUpper == <<66>>
LblStar == <<star>>
LblMixed == <<97, star>>
LblTwoStars == <<star, star>>
LblBang == <<33>>
LblNonAscii == <<195, 169>>
LblAssetUpper == <<65, 115, 115, 101, 116>>
LblFull == Rep(maxLabelSize, 97)
LblOver == Rep(maxLabelSize + 1, 97)

FirstLabels ==
    {<<>>, asset, LblAssetUpper, conciliateCredit, LblPlain, LblStar, LblMixed,
     LblTwoStars, LblOver, LblNonAscii, LblBang}
RestLabels == {<<>>, LblPlain, LblUpper, LblStar, LblMixed, LblFull, LblOver}
TailLabels == {<<>>, LblPlain, LblStar}

LabelsAt(k) == IF k = 1 THEN FirstLabels ELSE IF k <= 3 THEN RestLabels ELSE TailLabels

RECURSIVE LabelSeqs(_)
LabelSeqs(n) ==
    IF n = 0 THEN {<<>>}
    ELSE {Append(ls, l) : ls \in LabelSeqs(n - 1), l \in LabelsAt(n)}

RECURSIVE Join(_)
Join(ls) ==
    IF Len(ls) = 0 THEN <<>>
    ELSE IF Len(ls) = 1 THEN ls[1]
    ELSE ls[1] \o <<dot>> \o Join(Tail(ls))

Inputs == UNION {{Join(ls) : ls \in LabelSeqs(n)} : n \in 1..MaxLabels}

(***************************************************************************)
(* The ledger: the accounts of the model, the entries of a transaction,    *)
(* and the store behind the Repository interface.                          *)
(***************************************************************************)
\* The cap on the number of entries the store of the model holds.
MaxStored == 4

DebitOperation == "Debit"
CreditOperation == "Credit"

\* The sentinel "assign the next version of the account".
NextAccountVersion == 0 - 1

ErrImbalance == "ErrImbalance"
ErrInvalidAccount == "ErrInvalidAccount"
ErrVersionConflict == "ErrVersionConflict"
ErrStorage == "ErrStorage"

\* "asset.a1.a1", "asset.a1.B" and "asset.*.a1", as the validator returns them.
AccountOne == NewAccount(Join(<<asset, LblPlain, LblPlain>>)).ret
AccountTwo == NewAccount(Join(<<asset, LblPlain, LblUpper>>)).ret
AccountGroup == NewAccount(Join(<<asset, LblStar, LblPlain>>)).ret

LedgerAccounts == {AccountOne, AccountTwo, AccountGroup}
AnalyticAccounts == {a \in LedgerAccounts : a.accountType = Analytic}

Amounts == {1, 2}
ExplicitVersions == {0, 1}
PageSizes == {1, 2}

\* One entry of a transaction to post.
EntryRequests ==
    [account : LedgerAccounts, operation : {DebitOperation, CreditOperation},
     amount : Amounts, version : {NextAccountVersion} \cup ExplicitVersions]

\* A transaction: a batch of two entries.
Transactions == [1..2 -> EntryRequests]

RECURSIVE SumOf(_, _, _)
SumOf(es, oper, k) ==
    IF k = 0 THEN 0
    ELSE SumOf(es, oper, k - 1) + (IF es[k].operation = oper THEN es[k].amount ELSE 0)

\* An empty store.
NoList == [entries |-> <<>>, cursor |-> 0, err |-> nil]
NoPage == [Entries |-> <<>>, NextPage |-> 0, err |-> nil]

LedgerEmpty ==
    /\ op = "none"
    /\ entries = [a \in AnalyticAccounts |-> <<>>]
    /\ accVersion = [a \in AnalyticAccounts |-> 0]
    /\ txDebit = 0
    /\ txCredit = 0
    /\ txErr = nil
    /\ repoList = NoList
    /\ ucList = NoPage

(***************************************************************************)
(* Repository.CreateTransaction: every entry is appended at the tip of its *)
(* account; an entry with an explicit version is a conditional write on    *)
(* the current version of its account.  All entries commit, or none.       *)
(***************************************************************************)
RECURSIVE PostEntries(_, _, _, _)
PostEntries(es, k, ents, vers) ==
    IF k > Len(es) THEN [err |-> nil, entries |-> ents, accVersion |-> vers]
    ELSE LET e == es[k]
             a == e.account
         IN  IF e.version # NextAccountVersion /\ e.version # vers[a]
             THEN [err |-> ErrVersionConflict, entries |-> ents, accVersion |-> vers]
             ELSE PostEntries(es, k + 1,
                     [ents EXCEPT ![a] =
                         Append(@, [operation |-> e.operation, amount |-> e.amount,
                                    version |-> vers[a] + 1])],
                     [vers EXCEPT ![a] = @ + 1])

RepositoryCreateTransaction(es, storageFails) ==
    LET o == PostEntries(es, 1, entries, accVersion)
    IN  IF storageFails
        THEN [err |-> ErrStorage, entries |-> entries, accVersion |-> accVersion]
        ELSE IF o.err # nil
             THEN [err |-> o.err, entries |-> entries, accVersion |-> accVersion]
             ELSE o

(***************************************************************************)
(* The use case CreateTransaction: the double-entry check, the check that  *)
(* every entry posts to an Analytic account, then the repository.          *)
(***************************************************************************)
UseCaseCreateTransaction_NoBalanceCheck(es, storageFails) ==
    IF \E k \in 1..Len(es) : es[k].account.accountType # Analytic
    THEN [err |-> ErrInvalidAccount, entries |-> entries, accVersion |-> accVersion]
    ELSE RepositoryCreateTransaction(es, storageFails)

UseCaseCreateTransaction(es, storageFails) ==
    IF SumOf(es, DebitOperation, Len(es)) # SumOf(es, CreditOperation, Len(es))
    THEN [err |-> ErrImbalance, entries |-> entries, accVersion |-> accVersion]
    ELSE IF \E k \in 1..Len(es) : es[k].account.accountType # Analytic
         THEN [err |-> ErrInvalidAccount, entries |-> entries, accVersion |-> accVersion]
         ELSE RepositoryCreateTransaction(es, storageFails)

(***************************************************************************)
(* Repository.ListAccountEntries: the entries of the account after the     *)
(* cursor (0: from the beginning), by ascending version, at most size of   *)
(* them; the cursor returned is the last version listed when more entries  *)
(* follow, and nil (0) otherwise.                                          *)
(***************************************************************************)
RepositoryListAccountEntries(a, cursor, size, storageFails) ==
    LET all == entries[a]
        last == IF cursor + size < Len(all) THEN cursor + size ELSE Len(all)
    IN  IF storageFails
        THEN [entries |-> <<>>, cursor |-> 0, err |-> ErrStorage]
        ELSE [entries |-> SubSeq(all, cursor + 1, last),
              cursor |-> IF last < Len(all) THEN last ELSE 0,
              err |-> nil]

(***************************************************************************)
(* The use case ListAccountEntries: the repository's answer, as a page.    *)
(***************************************************************************)
UseCaseListAccountEntries_EmptyIsError(res) ==
    IF res.err # nil \/ Len(res.entries) = 0
    THEN [Entries |-> <<>>, NextPage |-> 0,
          err |-> IF res.err # nil THEN res.err ELSE ErrStorage]
    ELSE [Entries |-> res.entries, NextPage |-> res.cursor, err |-> nil]

UseCaseListAccountEntries(res) ==
    IF res.err # nil
    THEN [Entries |-> <<>>, NextPage |-> 0, err |-> res.err]
    ELSE [Entries |-> res.entries, NextPage |-> res.cursor, err |-> nil]

(***************************************************************************)
(* The ledger as a state machine: calls of the two use cases.              *)
(***************************************************************************)
LedgerInit ==
    /\ input = <<>>
    /\ account = <<>>
    /\ analyticOnly = FALSE
    /\ pc = "idle"
    /\ idx = 0
    /\ r = 0
    /\ st = InitState
    /\ err = nil
    /\ ret = ZeroAccount
    /\ round = 1
    /\ first = ZeroAccount
    /\ LedgerEmpty

\* The number of entries in a store.
RECURSIVE StoredIn(_, _)
StoredIn(ents, as) ==
    IF as = {} THEN 0
    ELSE LET a == CHOOSE x \in as : TRUE
         IN  Len(ents[a]) + StoredIn(ents, as \ {a})

CreateTransaction ==
    /\ pc = "idle"
    /\ op = "none"
    /\ \E es \in Transactions, storageFails \in BOOLEAN :
          LET o == UseCaseCreateTransaction(es, storageFails)
          IN  /\ StoredIn(o.entries, AnalyticAccounts) <= MaxStored
              /\ op' = "CreateTransaction"
              /\ txDebit' = SumOf(es, DebitOperation, Len(es))
              /\ txCredit' = SumOf(es, CreditOperation, Len(es))
              /\ txErr' = o.err
              /\ entries' = o.entries
              /\ accVersion' = o.accVersion
    /\ UNCHANGED <<repoList, ucList>>
    /\ UNCHANGED validatorVars

ListAccountEntries ==
    /\ pc = "idle"
    /\ op = "none"
    /\ \E a \in AnalyticAccounts, size \in PageSizes, storageFails \in BOOLEAN :
          \E cursor \in 0..Len(entries[a]) :
             LET res == RepositoryListAccountEntries(a, cursor, size, storageFails)
             IN  /\ repoList' = res
                 /\ ucList' = UseCaseListAccountEntries(res)
    /\ op' = "ListAccountEntries"
    /\ UNCHANGED <<entries, accVersion, txDebit, txCredit, txErr>>
    /\ UNCHANGED validatorVars

\* The caller has taken the result of the call.
Return ==
    /\ pc = "idle"
    /\ op # "none"
    /\ op' = "none"
    /\ txDebit' = 0
    /\ txCredit' = 0
    /\ txErr' = nil
    /\ repoList' = NoList
    /\ ucList' = NoPage
    /\ UNCHANGED <<entries, accVersion>>
    /\ UNCHANGED validatorVars

LedgerNext ==
    \/ CreateTransaction
    \/ ListAccountEntries
    \/ Return

LedgerSpec == LedgerInit /\ [][LedgerNext]_vars

(***************************************************************************)
(* The state machine: one call of a constructor, rune by rune, and a       *)
(* second call on the value the first one returned.                        *)
(***************************************************************************)
Init ==
    /\ input \in Inputs
    /\ account = input
    /\ analyticOnly \in BOOLEAN
    /\ pc = "entry"
    /\ idx = 0
    /\ r = 0
    /\ st = InitState
    /\ err = nil
    /\ ret = ZeroAccount
    /\ round = 1
    /\ first = ZeroAccount
    /\ LedgerEmpty

\* if len(account) == 0 { return } ; st := &state{strategy: Analytic}
Enter ==
    /\ pc = "entry"
    /\ IF Len(account) = 0
       THEN /\ pc' = "done"
            /\ err' = ErrInvalidAccountStructure
            /\ ret' = ZeroAccount
       ELSE /\ pc' = "loop"
            /\ UNCHANGED <<err, ret>>
    /\ st' = InitState
    /\ idx' = 0
    /\ r' = 0
    /\ UNCHANGED <<input, account, analyticOnly, round, first, ledgerVars>>

\* The loop has a rune left to read; the rune read next.
InLoop == pc = "loop" /\ idx < Len(account)

CurRune == DecodeRune(account, idx).rune

\* One iteration of the range loop: the switch, then `if err != nil`.
Iteration ==
    LET d == DecodeRune(account, idx)
        o == scanRune(account, analyticOnly, st, d.rune)
    IN  /\ r' = d.rune
        /\ st' = o.st
        /\ err' = o.err
        /\ IF o.err # nil
           THEN /\ pc' = "done"
                /\ ret' = ZeroAccount
                /\ idx' = idx
           ELSE /\ pc' = "loop"
                /\ idx' = idx + d.width
                /\ UNCHANGED ret
        /\ UNCHANGED <<input, account, analyticOnly, round, first, ledgerVars>>

\* The iteration, by the case of the switch that the rune selects.
ScanLower == InLoop /\ IsLower(CurRune) /\ Iteration
ScanDigit == InLoop /\ IsDigit(CurRune) /\ Iteration
ScanUpper == InLoop /\ IsUpper(CurRune) /\ Iteration
ScanUnderscore == InLoop /\ IsUnderscore(CurRune) /\ Iteration
ScanDot == InLoop /\ IsDot(CurRune) /\ Iteration
ScanStar == InLoop /\ IsStar(CurRune) /\ Iteration
ScanOther == InLoop /\ IsOther(CurRune) /\ Iteration

\* The loop is over: the checks after it, the folding and the return.
Finish ==
    /\ pc = "loop"
    /\ idx >= Len(account)
    /\ LET o == finish(account, st, r)
       IN  /\ err' = o.err
           /\ ret' = o.ret
    /\ pc' = "done"
    /\ UNCHANGED <<input, account, analyticOnly, idx, r, st, round, first, ledgerVars>>

\* The caller validates the returned value again with the same constructor.
Revalidate ==
    /\ pc = "done"
    /\ err = nil
    /\ round = 1
    /\ account' = ret.value
    /\ first' = ret
    /\ round' = 2
    /\ pc' = "entry"
    /\ UNCHANGED <<input, analyticOnly, idx, r, st, err, ret, ledgerVars>>

Next ==
    \/ Enter
    \/ ScanLower
    \/ ScanDigit
    \/ ScanUpper
    \/ ScanUnderscore
    \/ ScanDot
    \/ ScanStar
    \/ ScanOther
    \/ Finish
    \/ Revalidate

Spec == Init /\ [][Next]_vars

(***************************************************************************)
(* Vocabulary of the properties.                                           *)
(***************************************************************************)
HasStar(s) == \E i \in 1..Len(s) : s[i] = star

HasDot(s) == \E i \in 1..Len(s) : s[i] = dot

FirstDot(s) == CHOOSE k \in 1..Len(s) : s[k] = dot /\ \A j \in 1..(k - 1) : s[j] # dot

\* The dot-separated labels of s, in order.
RECURSIVE Labels(_)
Labels(s) ==
    IF ~HasDot(s) THEN <<s>>
    ELSE <<SubSeq(s, 1, FirstDot(s) - 1)>> \o Labels(SubSeq(s, FirstDot(s) + 1, Len(s)))

NumLabels(s) == Len(Labels(s))

\* s starts with a dot, ends with a dot, or holds two dots in a row.
BadDots(s) ==
    /\ Len(s) > 0
    /\ \/ s[1] = dot
       \/ s[Len(s)] = dot
       \/ \E i \in 1..(Len(s) - 1) : s[i] = dot /\ s[i + 1] = dot

\* [a-z0-9_]
IsPlainByte(c) == IsLower(c) \/ IsDigit(c) \/ IsUnderscore(c)

NumStars(s) == Cardinality({i \in 1..Len(s) : s[i] = star})

\* The label limit the documentation of Account states (255), one below
\* maxLabelSize.
DocLabelLimit == maxLabelSize - 1

Returned == pc = "done"
Accepted == pc = "done" /\ err = nil

(***************************************************************************)
(* C1: every accepted input without a wildcard has at least 3 labels; a    *)
(* lone class such as "asset" and any two-label wildcard-free input are    *)
(* rejected.                                                               *)
(***************************************************************************)
C1_NoWildcardHasThreeLabels ==
    (Accepted /\ ~HasStar(account)) => NumLabels(account) >= 3

(***************************************************************************)
(* C2: uppercase letters are accepted in every label, the first included:  *)
(* an input whose lowercase form v is accepted with value v is accepted    *)
(* too, with the type and value returned for v.  (v ranges over the        *)
(* accounts of three labels or more, so that the statement does not rest   *)
(* on what is accepted among shorter ones.)                                *)
(***************************************************************************)
C2_UppercaseAcceptedAndFolded ==
    (Returned /\ round = 1) =>
        LET v == lowerAccount(account)
            rv == newAccount(v, analyticOnly)
        IN  (rv.err = nil /\ rv.ret.value = v /\ NumLabels(v) >= 3)
                => (err = nil /\ ret = rv.ret)

(***************************************************************************)
(* C3, as stated: the first label of every accepted account is exactly "*" *)
(* or one of the seven classes.                                            *)
(***************************************************************************)
C3_FirstLabelStarOrClass ==
    Accepted =>
        LET f == Labels(ret.value)[1] IN f = <<star>> \/ f \in Classes

(***************************************************************************)
(* C3, amended: the first label of every accepted account is one of the    *)
(* seven classes or contains exactly one "*", alone or next to characters  *)
(* of [a-z0-9_].                                                           *)
(***************************************************************************)
C3_FirstLabelClassOrWildcarded ==
    Accepted =>
        LET f == Labels(ret.value)[1]
        IN  \/ f \in Classes
            \/ /\ NumStars(f) = 1
               /\ \A i \in 1..Len(f) : IsPlainByte(f[i]) \/ f[i] = star

C3_Witness ==
    /\ Accepted
    /\ round = 1
    /\ HasDot(account)
    /\ Labels(ret.value)[1] = LblMixed

(***************************************************************************)
(* C4: every label of an accepted account has between 1 and 255 bytes (the *)
(* documented limit, scaled), the first, the middle and the final label    *)
(* alike.                                                                  *)
(***************************************************************************)
C4_LabelsWithinLimit ==
    Accepted =>
        \A k \in 1..NumLabels(account) :
            /\ Len(Labels(account)[k]) >= 1
            /\ Len(Labels(account)[k]) <= DocLabelLimit

(***************************************************************************)
(* C5: every accepted account has at most maxComponents labels.            *)
(***************************************************************************)
C5_AtMostMaxLabels ==
    Accepted => NumLabels(account) <= maxComponents

(***************************************************************************)
(* C6, as stated: every label of an account accepted by NewAccount is made *)
(* of [a-z0-9_] only or is exactly "*".                                    *)
(***************************************************************************)
C6_WildcardIsWholeLabel ==
    (Accepted /\ ~analyticOnly) =>
        \A k \in 1..NumLabels(ret.value) :
            LET l == Labels(ret.value)[k]
            IN  l = <<star>> \/ \A i \in 1..Len(l) : IsPlainByte(l[i])

(***************************************************************************)
(* C6, amended: every label of an account accepted by NewAccount is        *)
(* non-empty, is made of [a-z0-9_] and "*" only, and holds at most one     *)
(* "*", which may stand next to other characters.                          *)
(***************************************************************************)
C6_LabelCharsetOneWildcard ==
    (Accepted /\ ~analyticOnly) =>
        \A k \in 1..NumLabels(ret.value) :
            LET l == Labels(ret.value)[k]
            IN  /\ Len(l) >= 1
                /\ \A i \in 1..Len(l) : IsPlainByte(l[i]) \/ l[i] = star
                /\ NumStars(l) <= 1

C6_Witness ==
    /\ Accepted
    /\ ~analyticOnly
    /\ round = 1
    /\ NumLabels(ret.value) >= 3
    /\ Labels(ret.value)[1] = asset
    /\ Labels(ret.value)[2] = LblMixed
    /\ input # ret.value

(***************************************************************************)
(* C7: NewAnalyticAccount rejects every input that contains "*"; what it   *)
(* accepts is Analytic and holds no "*".                                   *)
(***************************************************************************)
C7_AnalyticRejectsWildcard ==
    (Returned /\ analyticOnly) =>
        /\ HasStar(account) => err # nil
        /\ err = nil => (ret.accountType = Analytic /\ ~HasStar(ret.value))

\* NewAnalyticAccount has rejected, at a "*", an input that NewAccount accepts.
C7_Witness ==
    /\ Returned
    /\ analyticOnly
    /\ HasStar(account)
    /\ err = ErrInvalidSingleAccountComponentCharacters
    /\ NewAccount(account).err = nil

(***************************************************************************)
(* C8: validating the returned value again with the same constructor       *)
(* succeeds and returns the same type and value.                           *)
(***************************************************************************)
C8_NormalizationIdempotent ==
    (Returned /\ round = 2) => (err = nil /\ ret = first)

C8_Witness ==
    /\ Returned
    /\ round = 2
    /\ err = nil
    /\ input # account
    /\ ret.value = account

(***************************************************************************)
(* C9: an input that starts with ".", ends with "." or contains ".." is    *)
(* rejected by both constructors.                                          *)
(***************************************************************************)
C9_EmptyLabelRejected ==
    (Returned /\ BadDots(account)) => err # nil

C9_Witness ==
    /\ Returned
    /\ ~analyticOnly
    /\ HasStar(account)
    /\ account[Len(account)] = dot
    /\ account[1] # dot
    /\ err = ErrInvalidAccountComponentSize
    /\ idx >= Len(account)

(***************************************************************************)
(* C10: an account accepted by NewAccount is Synthetic exactly when its    *)
(* value contains "*", and Analytic otherwise; within one scan the         *)
(* strategy never goes back from Synthetic to Analytic.                    *)
(***************************************************************************)
C10_SyntheticIffWildcard ==
    /\ []((Accepted /\ ~analyticOnly) =>
            /\ ret.accountType \in {Analytic, Synthetic}
            /\ ret.accountType = Synthetic <=> HasStar(ret.value))
    /\ [][(~analyticOnly /\ pc = "loop" /\ st.strategy = Synthetic)
            => st'.strategy = Synthetic]_vars

C10_Witness ==
    /\ Accepted
    /\ ~analyticOnly
    /\ ret.accountType = Synthetic
    /\ NumLabels(ret.value) >= 3
    /\ HasStar(Labels(ret.value)[2])
    /\ ~HasStar(Labels(ret.value)[3])


(***************************************************************************)
(* The check that made the call return its error, read from the position   *)
(* the call stopped at: before the loop ("empty"), at a rune inside the    *)
(* loop (idx is the offset of that rune), or after the loop.               *)
(***************************************************************************)
Cause ==
    IF pc # "done" \/ err = nil THEN "none"
    ELSE IF Len(account) = 0 THEN "empty"
    ELSE IF idx < Len(account)
         THEN IF IsDot(CurRune)
              THEN IF st.componentSize = 0 \/ st.componentSize > maxLabelSize
                   THEN "labelsize"
                   ELSE IF st.totalComponents = 0 /\ ~st.componentHasStar
                        THEN "class"
                        ELSE "labelcount"
              ELSE IF IsStar(CurRune)
                   THEN IF analyticOnly THEN "wildcardforbidden" ELSE "dupstar"
                   ELSE "invalidchar"
         ELSE IF r = dot THEN "trailingdot"
              ELSE IF st.totalComponents = 0 /\ ~st.componentHasStar
                   THEN "class"
                   ELSE "tooshort"

\* The errors NewAccount returns for: "", "asset..a1", "asset" followed by
\* maxComponents + 1 more labels, and "asset.a1".
RefEmpty == NewAccount(<<>>).err
RefLabelSize == NewAccount(asset \o <<dot, dot>> \o LblPlain).err
RefLabelCount ==
    NewAccount(Join(<<asset>> \o [i \in 1..(maxComponents + 1) |-> LblPlain])).err
RefTooShort == NewAccount(asset \o <<dot>> \o LblPlain).err

(***************************************************************************)
(* C11, as stated: empty input, an empty or oversized label, a label count *)
(* over the maximum and a structural violation are reported with four      *)
(* pairwise different errors, and a too short account, a trailing dot and  *)
(* a second wildcard in a label are all reported with the structural one.  *)
(***************************************************************************)
C11_FourDistinctKinds ==
    Returned =>
        /\ Cause \in {"tooshort", "trailingdot", "dupstar"} => err = RefTooShort
        /\ Cause = "empty" => err \notin {RefLabelSize, RefLabelCount, RefTooShort}
        /\ Cause = "labelsize" => err \notin {RefEmpty, RefLabelCount, RefTooShort}
        /\ Cause = "labelcount" => err \notin {RefEmpty, RefLabelSize, RefTooShort}

(***************************************************************************)
(* C11, amended: empty input, a label count over the maximum, a too short  *)
(* account and a second wildcard in a label are all reported with          *)
(* ErrInvalidAccountStructure; an empty or oversized label and a trailing  *)
(* dot are both reported with ErrInvalidAccountComponentSize, a different  *)
(* error.                                                                  *)
(***************************************************************************)
C11_TwoKinds ==
    Returned =>
        /\ Cause \in {"empty", "labelcount", "tooshort", "dupstar"}
              => err = ErrInvalidAccountStructure
        /\ Cause \in {"labelsize", "trailingdot"}
              => err = ErrInvalidAccountComponentSize
        /\ ErrInvalidAccountStructure # ErrInvalidAccountComponentSize

C11_Witness ==
    /\ Returned
    /\ Cause = "trailingdot"
    /\ NumLabels(account) >= 3
    /\ Labels(account)[1] = asset
    /\ err = RefLabelSize
    /\ RefEmpty = RefLabelCount

(***************************************************************************)
(* C12: a CreateTransaction call whose Debit amounts and Credit amounts do *)
(* not sum equally fails with the imbalance error and leaves the persisted *)
(* entries and the version of every account as they were.                 *)
(***************************************************************************)
C12_UnbalancedRejectedNoChange ==
    [][(op = "none" /\ op' = "CreateTransaction" /\ txDebit' # txCredit')
         => (txErr' = ErrImbalance /\ entries' = entries /\ accVersion' = accVersion)]_vars

C12_Witness ==
    /\ op = "CreateTransaction"
    /\ txDebit # txCredit
    /\ txDebit > 0
    /\ txCredit > 0
    /\ txErr = ErrImbalance
    /\ StoredIn(entries, AnalyticAccounts) > 0

(***************************************************************************)
(* C13: when the repository's ListAccountEntries returns a list, empty or  *)
(* not, with a nil cursor and no error, the use case returns no error,     *)
(* exactly that list and a nil NextPage.                                   *)
(***************************************************************************)
C13_ListPassedThrough ==
    (op = "ListAccountEntries" /\ repoList.err = nil /\ repoList.cursor = 0)
        => (ucList.err = nil /\ ucList.Entries = repoList.entries /\ ucList.NextPage = 0)

C13_Witness ==
    /\ op = "ListAccountEntries"
    /\ repoList.err = nil
    /\ repoList.cursor = 0
    /\ repoList.entries = <<>>
    /\ ucList.err = nil
    /\ ucList.NextPage = 0
    /\ StoredIn(entries, AnalyticAccounts) > 0

(***************************************************************************)
(* C14: for an input that does not end in ".", the validation after the    *)
(* scan rejects the final label exactly when, and with the error with      *)
(* which, treatDot would reject it were a "." to follow: empty or          *)
(* oversized label, unrecognized class, label count at the maximum.  (The  *)
(* minimum-length check that follows is left aside.)                       *)
(***************************************************************************)
C14_FinalLabelAsTreatDot ==
    (Returned /\ Len(account) > 0 /\ idx >= Len(account) /\ r # dot) =>
        LET td == treatDot(account, st).err
        IN  /\ td # nil => err = td
            /\ (err # nil /\ Cause # "tooshort") => td = err

\* The label the scan is in: the bytes read since the last "." (all of them
\* when no "." was read).
CurrentLabel == LET ls == Labels(SubSeq(account, 1, idx)) IN ls[Len(ls)]

(***************************************************************************)
(* C15: in NewAccount a second "*" in one label is rejected, with          *)
(* ErrInvalidAccountStructure when the scan reaches it; the wildcard flag  *)
(* and the length of the label start afresh after every ".", so that       *)
(* accounts made of "*" labels only ("*.*") are accepted; and a "*" counts *)
(* as one character of its label.                                          *)
(***************************************************************************)
C15_OneWildcardPerLabel ==
    /\ [](pc = "loop" =>
            /\ st.componentSize = Len(CurrentLabel)
            /\ st.componentHasStar <=> HasStar(CurrentLabel))
    /\ []((Returned /\ ~analyticOnly) =>
            /\ Cause = "dupstar" => err = ErrInvalidAccountStructure
            /\ (\E k \in 1..NumLabels(account) : NumStars(Labels(account)[k]) >= 2)
                  => err # nil
            /\ (/\ Len(account) > 0
                /\ NumLabels(account) <= maxComponents
                /\ \A k \in 1..NumLabels(account) : Labels(account)[k] = <<star>>)
                  => err = nil)

C15_Witness ==
    /\ Accepted
    /\ ~analyticOnly
    /\ NumLabels(account) = 3
    /\ Labels(account)[1] = asset
    /\ Labels(account)[2] = <<star>>
    /\ Labels(account)[3] = <<star>>

\* What may follow a prefix: "", ".", "a", "*", "!", ".a1".
Suffixes == {<<>>, <<dot>>, <<97>>, <<star>>, <<33>>, <<dot>> \o LblPlain}

(***************************************************************************)
(* C16: the scan stops at the first rune or label boundary that raises an  *)
(* error and returns that error: every input that shares the prefix up to  *)
(* and including that rune fails with the same error, nothing is read      *)
(* after it, and in analytic-only mode a "*" returns                       *)
(* ErrInvalidSingleAccountComponentCharacters at once, whatever the label  *)
(* read so far.                                                            *)
(***************************************************************************)
C16_StopsAtFirstError ==
    /\ []((Returned /\ err # nil /\ idx < Len(account)) =>
            LET pre == SubSeq(account, 1, idx + DecodeRune(account, idx).width)
            IN  \A x \in Suffixes :
                    newAccount(pre \o x, analyticOnly) = [err |-> err, ret |-> ZeroAccount])
    /\ [][(pc = "done" /\ err # nil) => (pc' = pc /\ idx' = idx /\ err' = err)]_vars
    /\ [][(InLoop /\ scanRune(account, analyticOnly, st, CurRune).err # nil)
            => /\ pc' = "done"
               /\ idx' = idx
               /\ err' = scanRune(account, analyticOnly, st, CurRune).err
               /\ ret' = ZeroAccount]_vars
    /\ [][(InLoop /\ analyticOnly /\ IsStar(CurRune))
            => /\ pc' = "done"
               /\ idx' = idx
               /\ err' = ErrInvalidSingleAccountComponentCharacters]_vars

\* NewAnalyticAccount has stopped at a "*" in a first label that is no class,
\* with more of the input left unread.
C16_Witness ==
    /\ Returned
    /\ analyticOnly
    /\ err = ErrInvalidSingleAccountComponentCharacters
    /\ st.totalComponents = 0
    /\ st.componentSize > 0
    /\ SubSeq(account, 1, st.componentSize) \notin Classes
    /\ idx + 1 < Len(account)

(***************************************************************************)
(* C17: on an input without "*" the two constructors return the same       *)
(* result: the same error, or the same value with type Analytic.           *)
(***************************************************************************)
C17_ConstructorsAgreeWithoutWildcard ==
    (Returned /\ round = 1 /\ ~HasStar(account)) =>
        LET other == newAccount(account, ~analyticOnly)
        IN  /\ other.err = err
            /\ other.ret = ret
            /\ err = nil => ret.accountType = Analytic

C17_Witness ==
    /\ Accepted
    /\ round = 1
    /\ analyticOnly
    /\ ~HasStar(account)
    /\ NumLabels(account) >= 3
    /\ ret.value # account

\* The class check is about to slice account[:componentSize]: at the first
\* "." (past the size check of treatDot), or after the loop with no "." read.
SlicePoint ==
    /\ pc = "loop"
    /\ st.totalComponents = 0
    /\ ~st.componentHasStar
    /\ \/ /\ idx < Len(account)
          /\ IsDot(CurRune)
          /\ st.componentSize > 0
          /\ st.componentSize <= maxLabelSize
       \/ /\ idx >= Len(account)
          /\ r # dot

(***************************************************************************)
(* C18: while the scan runs, every byte read so far is a one-byte (ASCII)  *)
(* character, and in the first label componentSize is the number of bytes  *)
(* read; so where the class check slices account[:componentSize] the      *)
(* slice is within the string and is exactly the first label.  An input    *)
(* with a byte outside ASCII is rejected.                                  *)
(***************************************************************************)
C18_ClassSliceIsFirstLabel ==
    /\ pc = "loop" =>
          /\ idx <= Len(account)
          /\ st.componentSize <= Len(account)
          /\ \A i \in 1..idx : account[i] < 128
          /\ st.totalComponents = 0 => st.componentSize = idx
    /\ SlicePoint => SubSeq(account, 1, st.componentSize) = Labels(account)[1]
    /\ (Returned /\ \E i \in 1..Len(account) : account[i] >= 128) => err # nil

C18_Witness ==
    /\ SlicePoint
    /\ idx < Len(account)
    /\ st.needsLower
    /\ SubSeq(account, 1, st.componentSize) = LblAssetUpper

(***************************************************************************)
(* C19: the value of an accepted account has the length of the input and   *)
(* is the input with every A-Z replaced by its lowercase letter and every  *)
(* other character (a-z, 0-9, "_", ".", "*") unchanged; it holds no        *)
(* uppercase letter, and is the input itself when the input holds none.    *)
(***************************************************************************)
C19_ValueIsInputLowered ==
    (Accepted /\ round = 1) =>
        /\ Len(ret.value) = Len(input)
        /\ \A i \in 1..Len(input) :
              /\ input[i] \in 65..90 => ret.value[i] = input[i] + 32
              /\ input[i] \notin 65..90 =>
                    /\ ret.value[i] = input[i]
                    /\ IsPlainByte(input[i]) \/ input[i] = dot \/ input[i] = star
              /\ ret.value[i] \notin 65..90
        /\ (\A i \in 1..Len(input) : input[i] \notin 65..90) => ret.value = input

C19_Witness ==
    /\ Accepted
    /\ round = 1
    /\ HasStar(input)
    /\ \E i \in 1..Len(input) : input[i] \in 65..90
    /\ \E i \in 1..Len(input) : IsDigit(input[i])
    /\ ret.value # input

TypeOK ==
    /\ pc \in {"entry", "loop", "done"}
    /\ round \in {1, 2}
    /\ idx \in 0..Len(account)
    /\ st.strategy \in {Analytic, Synthetic}

====
